---- MODULE Spec2Model ----
(***************************************************************************)
(* Synchronization core of crypcodes/toko.                                 *)
(*                                                                         *)
(*   supabase/functions/sync-scheduler/index.ts  - scheduler tick, job     *)
(*       executor, retry pass, run_now                                     *)
(*   supabase/functions/inventory-sync/index.ts  - rate limiter, the       *)
(*       chunked inventory push and the low stock alert                    *)
(*   supabase/functions/order-monitor/index.ts   - order fetchers, new     *)
(*       order and status change alerts, order store                       *)
(*   supabase/functions/process-order/index.ts   - the order actions       *)
(*       confirm, ship, cancel and complete                                *)
(*   src/pages/OrdersPage.tsx                    - the action buttons of   *)
(*       the dashboard and handleProcessOrder                              *)
(*                                                                         *)
(* Time is counted in minutes.  The database tables sync_schedules,        *)
(* sync_jobs, sync_operations, notifications, products and orders are the  *)
(* shared state (the functions take the database client as a parameter);   *)
(* each HTTP invocation of an edge function is a process whose steps are   *)
(* the awaits of its handler.                                              *)
(***************************************************************************)
EXTENDS Integers, Sequences, FiniteSets, TLC

(* ------------------------------ bounds -------------------------------- *)
MaxJobs == 5
MaxClock == 10
ClockStep == 5
MaxProducts == 2
RateClockStep == 31
MaxRateClock == 62
MaxMonitorRuns == 2
MaxSyncCalls == 3
MaxRemote == 2
MaxOrderUpdates == 3

(* ------------------------- program constants -------------------------- *)
BackoffBaseMinutes == 5
RetryQueryLimit == 3
FallbackMaxRetries == 3
InventorySyncMaxRetries == 3
OrderMonitorMaxRetries == 3
StatusSyncMaxRetries == 2

ShopeeRequests == 100
TikTokShopRequests == 60
RateWindow == 60
BatchSize == 10
HighValueOrder == 1000
BulkOrderSize == 10
MonitoringInterval == 5

NoTime == 0 - 1

Invocations == {"cron", "manual"}
ScheduleIds == {1, 2}
TerminalStatuses == {"completed", "failed", "cancelled"}

\* What the invoked function's response amounts to for the executor:
\* "ok" is response.ok && result.success; the others are the classes of
\* failure the error message can describe.
FailureReasons == {"transient", "rate_limited", "auth", "permanent"}
Outcomes == {"ok"} \cup FailureReasons

VARIABLES
  clock,          \* Date.now(), in minutes
  schedules,      \* table sync_schedules: id -> row
  jobs,           \* table sync_jobs: sequence of rows, the index is the id
  jobMeta,        \* history: for each job, who created it and when
  notifications,  \* table notifications
  pc,             \* per invocation: position in performSchedulerAction
  due,            \* per invocation: rows returned by getActiveSchedules, still to do
  cur,            \* per invocation: id of the job being executed
  failedSnap,     \* per invocation: rows returned by the retry query, still to do
  dueAtStart,     \* history: per invocation, the schedules due when the tick started
  jobsAtStart,    \* history: per invocation, the number of job rows when the tick started
  seenExhausted,  \* history: per invocation, failed jobs out of retries when the
                  \* retry pass started
  sync_operations,\* table sync_operations: platform -> (timestamp -> rows logged)
  batch,          \* inventory-sync: the products of the running Promise.all batch
  todo,           \* inventory-sync: products of the job not yet in a batch
  syncResult,     \* inventory-sync: the results object of performInventorySync
  syncPhase,      \* inventory-sync: "idle", "running" or "returned"
  products,       \* table products: id -> row
  stockSeen,      \* history: per product, the stock read by the previous and by
                  \* the latest inventory-sync request
  remote,         \* the platforms' order lists, as their order endpoints report them
  orders,         \* table orders: platform_order_id -> row
  mon,            \* order-monitor: the locals of performOrderMonitoring
  lastResponse,   \* history: the number of order-monitor requests completed
                  \* (counted up to MaxMonitorRuns) and the orders the latest fetched
  response,       \* sync-scheduler: the latest run_now or cancel request and the
                  \* result performSchedulerAction returned for it
  tenantRows,     \* history: per platform, the rows of sync_operations logged by
                  \* the requests of the tenant whose inventory is being synced
  req,            \* process-order: per request in flight, its body and position
  view,           \* Orders page: the status of each order as loadOrders last read it
  env,            \* whether SUPABASE_URL and SUPABASE_SERVICE_ROLE_KEY are set
  scheduler_logs  \* table scheduler_logs: the set of <<operation, job id>> rows
                  \* (job id 0 is 'system')

vars == <<clock, schedules, jobs, jobMeta, notifications, pc, due, cur,
          failedSnap, dueAtStart, jobsAtStart, seenExhausted, sync_operations, batch,
          todo, syncResult, syncPhase, products, stockSeen, remote, orders, mon,
          lastResponse, response, tenantRows, req, view, env, scheduler_logs>>

appVars == <<response, tenantRows, req, view, env>>

invVars == <<products, stockSeen>>

monVars == <<remote, orders, mon, lastResponse>>

rateVars == <<sync_operations, batch, todo, syncResult, syncPhase>>

schedVars == <<schedules, jobs, jobMeta, pc, due, cur, failedSnap, dueAtStart,
               jobsAtStart, seenExhausted, scheduler_logs>>

(* ------------------------------ helpers ------------------------------- *)
RECURSIVE Pow2(_)
Pow2(n) == IF n = 0 THEN 1 ELSE 2 * Pow2(n - 1)

RECURSIVE Ascending(_)
\* the ids of a set of rows, in ascending order (the order of the rows)
Ascending(S) ==
  IF S = {} THEN <<>>
  ELSE LET m == CHOOSE x \in S : \A y \in S : x <= y
       IN <<m>> \o Ascending(S \ {m})

(* --------------------------- sync-scheduler --------------------------- *)
DefaultMaxRetries(type) ==
  CASE type = "inventory_sync" -> InventorySyncMaxRetries
    [] type = "order_monitor"  -> OrderMonitorMaxRetries
    [] type = "status_sync"    -> StatusSyncMaxRetries
    [] OTHER                   -> FallbackMaxRetries

\* a variant of the query without the is_active filter
IsDue_IgnoreActive(s) == schedules[s].next_run <= clock

\* getActiveSchedules: is_active = true and next_run <= now
IsDue(s) == schedules[s].is_active /\ schedules[s].next_run <= clock

GetActiveSchedules == Ascending({s \in ScheduleIds : IsDue(s)})

\* createSyncJob: the inserted row; retry_count is always 0
CreateSyncJob(type, platform, status, scheduled_at, priority) ==
  [type |-> type, platform |-> platform, status |-> status,
   scheduled_at |-> scheduled_at, priority |-> priority,
   retry_count |-> 0, max_retries |-> DefaultMaxRetries(type),
   result |-> "null", error_message |-> "", completed_at |-> NoTime]

\* updateJobStatus
UpdateJobStatus(js, id, status, result, error_message) ==
  [js EXCEPT ![id] = [@ EXCEPT !.status = status,
                               !.result = result,
                               !.error_message = error_message,
                               !.completed_at =
                                  IF status \in TerminalStatuses
                                  THEN clock ELSE @]]

\* calculateNextRun
CalculateNextRun(intervalMinutes) == clock + intervalMinutes

\* a variant that advances from the previous next_run (cumulative drift)
UpdateScheduleNextRun_Cumulative(ss, s, nextRun) ==
  [ss EXCEPT ![s] = [@ EXCEPT !.next_run = @ + ss[s].interval_minutes,
                              !.last_run = clock]]

\* updateScheduleNextRun
UpdateScheduleNextRun(ss, s, nextRun) ==
  [ss EXCEPT ![s] = [@ EXCEPT !.next_run = nextRun, !.last_run = clock]]

\* a variant with a linear instead of an exponential delay
BackoffMinutes_Linear(retry_count) == (retry_count + 1) * BackoffBaseMinutes

\* retryFailedJobs: the delay before the retry of a job with this retry_count
BackoffMinutes(retry_count) == Pow2(retry_count) * BackoffBaseMinutes

\* retryFailedJobs: the query status = 'failed' and retry_count < 3
IsRetryCandidate(j) ==
  jobs[j].status = "failed" /\ jobs[j].retry_count < RetryQueryLimit

\* retryFailedJobs: const maxRetries = job.max_retries || 3
EffectiveMaxRetries(row) ==
  IF row.max_retries = 0 THEN FallbackMaxRetries ELSE row.max_retries

(* --------------------------- inventory-sync --------------------------- *)
RatePlatforms == {"shopee", "tiktokshop"}

\* RATE_LIMITS[platform].requests
RateLimitRequests(p) == IF p = "shopee" THEN ShopeeRequests ELSE TikTokShopRequests

\* performInventorySync: const results = { success: true, synced: 0, errors: [] }
NoResult == [success |-> TRUE, synced |-> 0, errors |-> {}]

RECURSIVE SumOver(_, _)
SumOver(f, S) ==
  IF S = {} THEN 0
  ELSE LET t == CHOOSE x \in S : TRUE IN f[t] + SumOver(f, S \ {t})

\* the count query: rows of the platform with timestamp >= since
RowsSince(p, since) ==
  SumOver(sync_operations[p], {t \in DOMAIN sync_operations[p] : t >= since})

\* checkRateLimit: the window is RATE_LIMITS[platform].window * 60 * 1000 ms,
\* that is `window` minutes; a failed count query returns false
CheckRateLimit(p, queryFails) ==
  IF queryFails THEN FALSE
  ELSE RowsSince(p, clock - RateWindow) < RateLimitRequests(p)

\* logSyncOperation: one more row for the platform, stamped now
LogSyncOperation(ops, p) ==
  LET f == ops[p] IN
    [ops EXCEPT ![p] = IF clock \in DOMAIN f
                       THEN [f EXCEPT ![clock] = @ + 1]
                       ELSE f @@ (clock :> 1)]

RateLimitError(p) ==
  IF p = "shopee" THEN "Shopee rate limit exceeded"
  ELSE "TikTok Shop rate limit exceeded"

SyncFailedError(p) ==
  IF p = "shopee" THEN "Shopee sync failed" ELSE "TikTok Shop sync failed"

\* syncProductInventory: where a product goes once a push is done or skipped
SecondCall(r) ==
  IF r.needs["tiktokshop"] /\ r.admit["tiktokshop"]
  THEN <<"call", "tiktokshop">> ELSE <<"alert", "">>

FirstCall(r) ==
  IF r.needs["shopee"] /\ r.admit["shopee"]
  THEN <<"call", "shopee">> ELSE SecondCall(r)

AfterCheck(r, p) ==
  IF p = "shopee" /\ r.needs["tiktokshop"]
  THEN <<"chk", "tiktokshop">> ELSE FirstCall(r)

AfterLog(r, p) == IF p = "shopee" THEN SecondCall(r) ELSE <<"alert", "">>

\* syncProductInventory, entry: a product without listings returns at once
NewProduct(id, needs, low) ==
  [id |-> id, needs |-> needs, low |-> low,
   admit |-> [p \in RatePlatforms |-> FALSE],
   queryFailed |-> [p \in RatePlatforms |-> FALSE],
   errors |-> {},
   pc |-> IF needs["shopee"] THEN <<"chk", "shopee">>
          ELSE IF needs["tiktokshop"] THEN <<"chk", "tiktokshop">>
          ELSE <<"done", "">>]

\* products.slice(i, i + batchSize)
FirstBatch(ps) == SubSeq(ps, 1, IF Len(ps) < BatchSize THEN Len(ps) ELSE BatchSize)
RestAfterBatch(ps) ==
  SubSeq(ps, (IF Len(ps) < BatchSize THEN Len(ps) ELSE BatchSize) + 1, Len(ps))

RECURSIVE TallyBatch(_, _)
\* batchResults.forEach: synced++ on success, else success = false and the errors
TallyBatch(res, rs) ==
  IF rs = <<>> THEN res
  ELSE LET r == Head(rs)
           nxt == IF r.errors = {}
                  THEN [res EXCEPT !.synced = @ + 1]
                  ELSE [res EXCEPT !.success = FALSE,
                                   !.errors = @ \cup r.errors]
       IN TallyBatch(nxt, Tail(rs))

ProductIds == 1..MaxProducts
StockLevels == {0, 8, 10, 12}
Thresholds == {10}

\* syncProductInventory: stock_quantity <= low_stock_threshold && stock_quantity > 0
IsLowStock(row) ==
  row.stock_quantity <= row.low_stock_threshold /\ row.stock_quantity > 0

ListingKinds ==
  {[p \in RatePlatforms |-> p = "shopee"],
   [p \in RatePlatforms |-> p = "tiktokshop"],
   [p \in RatePlatforms |-> TRUE]}

\* performInventorySync: getProductsForSync and the first batch
StartSync(needs, n) ==
  /\ syncPhase = "idle"
  /\ LET ps == [k \in 1..n |-> NewProduct(k, needs, IsLowStock(products[k]))] IN
       /\ batch' = FirstBatch(ps)
       /\ todo' = RestAfterBatch(ps)
  /\ stockSeen' = [k \in ProductIds |->
                     IF k <= n THEN <<stockSeen[k][2], products[k].stock_quantity>>
                     ELSE stockSeen[k]]
  /\ syncResult' = NoResult
  /\ syncPhase' = "running"
  /\ UNCHANGED <<clock, schedVars, notifications, sync_operations, products,
                 monVars, appVars>>

\* syncProductInventory: await checkRateLimit(platform)
CheckStep(k, queryFails) ==
  /\ k \in 1..Len(batch)
  /\ batch[k].pc[1] = "chk"
  /\ LET r == batch[k]
         p == r.pc[2]
         ok == CheckRateLimit(p, queryFails)
         r1 == [r EXCEPT !.admit[p] = ok,
                         !.queryFailed[p] = queryFails,
                         !.errors = IF ok THEN @ ELSE @ \cup {RateLimitError(p)}]
     IN batch' = [batch EXCEPT ![k] = [r1 EXCEPT !.pc = AfterCheck(r1, p)]]
  /\ UNCHANGED <<clock, schedVars, notifications, sync_operations, todo,
                 syncResult, syncPhase,
                 invVars, monVars, appVars>>

\* syncProductInventory: await updateShopeeInventory / updateTikTokShopInventory
CallStep(k, success) ==
  /\ k \in 1..Len(batch)
  /\ batch[k].pc[1] = "call"
  /\ LET r == batch[k]
         p == r.pc[2]
     IN batch' = [batch EXCEPT ![k] =
                    [r EXCEPT !.pc = <<"log", p>>,
                              !.errors = IF success THEN @
                                         ELSE @ \cup {SyncFailedError(p)}]]
  /\ UNCHANGED <<clock, schedVars, notifications, sync_operations, todo,
                 syncResult, syncPhase,
                 invVars, monVars, appVars>>

\* syncProductInventory: await logSyncOperation
LogStep(k) ==
  /\ k \in 1..Len(batch)
  /\ batch[k].pc[1] = "log"
  /\ LET r == batch[k]
         p == r.pc[2]
     IN /\ sync_operations' = LogSyncOperation(sync_operations, p)
        /\ tenantRows' = LogSyncOperation(tenantRows, p)
        /\ batch' = [batch EXCEPT ![k] = [r EXCEPT !.pc = AfterLog(r, p)]]
  /\ UNCHANGED <<clock, schedVars, notifications, todo, syncResult, syncPhase,
                 invVars, monVars, response, req, view, env>>

\* sendLowStockAlert: the inserted row
LowStockAlert(product_id) ==
  [type |-> "low_stock", product_id |-> product_id, read |-> FALSE]

\* syncProductInventory: the low stock check and the return
AlertStep(k) ==
  /\ k \in 1..Len(batch)
  /\ batch[k].pc[1] = "alert"
  /\ notifications' = IF batch[k].low
                      THEN Append(notifications, LowStockAlert(batch[k].id))
                      ELSE notifications
  /\ batch' = [batch EXCEPT ![k] = [@ EXCEPT !.pc = <<"done", "">>]]
  /\ UNCHANGED <<clock, schedVars, sync_operations, todo, syncResult, syncPhase,
                 invVars, monVars, appVars>>

\* performInventorySync: Promise.all resolved; tally, then the next batch
\* (after the pause) or the return
FinishBatch ==
  /\ syncPhase = "running"
  /\ \A k \in 1..Len(batch) : batch[k].pc[1] = "done"
  /\ syncResult' = TallyBatch(syncResult, batch)
  /\ batch' = FirstBatch(todo)
  /\ todo' = RestAfterBatch(todo)
  /\ syncPhase' = IF todo = <<>> THEN "returned" ELSE "running"
  /\ UNCHANGED <<clock, schedVars, notifications, sync_operations,
                 invVars, monVars, appVars>>

\* the next request to the inventory-sync function
NextRequest ==
  /\ syncPhase = "returned"
  /\ RowsSince("shopee", NoTime) + RowsSince("tiktokshop", NoTime) < MaxSyncCalls
  /\ syncPhase' = "idle"
  /\ batch' = <<>>
  /\ UNCHANGED <<clock, schedVars, notifications, sync_operations, todo,
                 syncResult, invVars, monVars, appVars>>

\* the stock of a product changes (a sale, a delivery)
SetStock(k, q) ==
  /\ q # products[k].stock_quantity
  /\ products' = [products EXCEPT ![k] = [@ EXCEPT !.stock_quantity = q]]
  /\ UNCHANGED <<clock, schedVars, notifications, rateVars, stockSeen, monVars, appVars>>

\* time passes while inventory-sync runs or rests
PassTime ==
  /\ clock + RateClockStep <= MaxRateClock
  /\ clock' = clock + RateClockStep
  /\ UNCHANGED <<schedVars, notifications, rateVars,
                 invVars, monVars, appVars>>

(* --------------------------- order-monitor ---------------------------- *)
OrderIds == {1, 2}

\* the orders the platforms hold: order 1 is a Shopee order of 1000 with 9
\* items, order 2 a TikTok Shop order of 999 with 10 items
OrderPlatform(o) == IF o = 1 THEN "shopee" ELSE "tiktokshop"
OrderTotal(o) == IF o = 1 THEN 1000 ELSE 999
OrderQuantity(o) == IF o = 1 THEN 9 ELSE 10

\* mapShopeeStatus
MapShopeeStatus(st) ==
  CASE st = "UNPAID"     -> "pending"
    [] st = "PAID"       -> "paid"
    [] st = "PROCESSING" -> "paid"
    [] st = "SHIPPED"    -> "shipped"
    [] st = "COMPLETED"  -> "delivered"
    [] st = "CANCELLED"  -> "cancelled"
    [] st = "REFUNDED"   -> "refunded"
    [] OTHER             -> "pending"

\* mapTikTokStatus
MapTikTokStatus(st) ==
  CASE st = "CREATED"    -> "pending"
    [] st = "UNPAID"     -> "pending"
    [] st = "PAID"       -> "paid"
    [] st = "PROCESSING" -> "paid"
    [] st = "SHIPPED"    -> "shipped"
    [] st = "DELIVERED"  -> "delivered"
    [] st = "CANCELLED"  -> "cancelled"
    [] st = "REFUNDED"   -> "refunded"
    [] OTHER             -> "pending"

\* how an order moves on at its platform
RemoteNextStatus(st) == IF st = "UNPAID" THEN "PAID" ELSE "SHIPPED"

NoOrder ==
  [present |-> FALSE, status |-> "", total_amount |-> 0, created_at |-> NoTime,
   tracking_number |-> ""]

NoCalls == [p \in RatePlatforms |-> 0]

MonIdle == [pc |-> <<"idle", "">>, platform |-> "", checkFrom |-> 0,
            existing |-> [o \in OrderIds |-> NoOrder],
            current |-> <<>>, sent |-> <<>>, calls |-> NoCalls, failed |-> {}]

\* no request has completed yet
NoResponse == [runs |-> 0, orders |-> <<>>, success |-> FALSE, failed |-> {}]

\* fetchShopeeOrders / fetchTikTokShopOrders: the orders of the platform
\* created since `since`, transformed to Order objects in the reported order
RECURSIVE FetchOrders(_, _, _)
FetchOrders(list, p, since) ==
  IF list = <<>> THEN <<>>
  ELSE LET e == Head(list)
           rest == FetchOrders(Tail(list), p, since)
       IN IF OrderPlatform(e.oid) = p /\ e.created_at >= since
          THEN <<[oid |-> e.oid,
                  status |-> IF p = "shopee" THEN MapShopeeStatus(e.status)
                             ELSE MapTikTokStatus(e.status),
                  total_amount |-> OrderTotal(e.oid),
                  quantity |-> OrderQuantity(e.oid),
                  created_at |-> e.created_at]>> \o rest
          ELSE rest

\* the OrderAlert objects
OrderAlert(type, order, priority, old_status, new_status) ==
  [type |-> type, order_id |-> order.oid, severity |-> priority,
   old_status |-> old_status, new_status |-> new_status, read |-> FALSE]

\* checkForNewOrders: the alerts for the fetched orders not in existingOrders
RECURSIVE NewOrderAlerts(_, _)
NewOrderAlerts(existing, list) ==
  IF list = <<>> THEN <<>>
  ELSE LET order == Head(list) IN
       (IF existing[order.oid].present THEN <<>>
        ELSE <<OrderAlert("new_order", order, "medium", "", "")>>
             \o (IF order.total_amount >= HighValueOrder
                 THEN <<OrderAlert("high_value", order, "high", "", "")>>
                 ELSE <<>>)
             \o (IF order.quantity >= BulkOrderSize
                 THEN <<OrderAlert("bulk_order", order, "medium", "", "")>>
                 ELSE <<>>))
       \o NewOrderAlerts(existing, Tail(list))

\* a variant that reports every fetched order that exists locally
StatusAlertsFor_NoCompare(old, order) ==
  IF old.present
  THEN <<OrderAlert("status_change", order, "medium", old.status, order.status)>>
  ELSE <<>>

\* checkOrderStatusChanges, loop body: the alerts for one fetched order
StatusAlertsFor(old, order) ==
  IF old.present /\ old.status # order.status
  THEN <<OrderAlert("status_change", order, "medium", old.status, order.status)>>
       \o (IF order.status = "shipped"
           THEN <<OrderAlert("shipping_update", order, "low", "", "")>>
           ELSE <<>>)
  ELSE <<>>

\* checkOrderStatusChanges: the alerts for the fetched orders whose status
\* differs from the one in existingOrders
RECURSIVE StatusChangeAlerts(_, _)
StatusChangeAlerts(existing, list) ==
  IF list = <<>> THEN <<>>
  ELSE StatusAlertsFor(existing[Head(list).oid], Head(list))
       \o StatusChangeAlerts(existing, Tail(list))

\* storeOrders: one upsert per fetched order, in the order of the list
RECURSIVE StoreOrders(_, _)
StoreOrders(tbl, list) ==
  IF list = <<>> THEN tbl
  ELSE LET order == Head(list) IN
       StoreOrders([tbl EXCEPT ![order.oid] =
                      [present |-> TRUE, status |-> order.status,
                       total_amount |-> order.total_amount,
                       created_at |-> order.created_at,
                       tracking_number |-> tbl[order.oid].tracking_number]],
                   Tail(list))

\* the entries of the platforms' lists about order o
EntriesOf(o) == {k \in 1..Len(remote) : remote[k].oid = o}

\* the latest entry about the order of entry k
IsLatestEntry(k) == \A m \in EntriesOf(remote[k].oid) : m <= k

\* a customer places an order at its platform
RemoteNewOrder(o) ==
  /\ EntriesOf(o) = {}
  /\ Len(remote) < MaxRemote
  /\ remote' = Append(remote, [oid |-> o, status |-> "UNPAID", created_at |-> clock])
  /\ UNCHANGED <<clock, schedVars, notifications, rateVars, invVars, orders, mon,
                 lastResponse, appVars>>

\* the platform moves an order on
RemoteUpdate(k) ==
  /\ k \in 1..Len(remote)
  /\ IsLatestEntry(k)
  /\ remote[k].status # "SHIPPED"
  /\ remote' = [remote EXCEPT ![k] = [@ EXCEPT !.status = RemoteNextStatus(@)]]
  /\ UNCHANGED <<clock, schedVars, notifications, rateVars, invVars, orders, mon,
                 lastResponse, appVars>>

\* the platform moves an order on and its list reports the order once more,
\* with the new status after the old one
RemoteReport(k) ==
  /\ k \in 1..Len(remote)
  /\ IsLatestEntry(k)
  /\ remote[k].status # "SHIPPED"
  /\ Len(remote) < MaxRemote
  /\ remote' = Append(remote, [remote[k] EXCEPT !.status = RemoteNextStatus(@)])
  /\ UNCHANGED <<clock, schedVars, notifications, rateVars, invVars, orders, mon,
                 lastResponse, appVars>>

MonitorPlatforms == {"all", "shopee", "tiktokshop"}

\* performOrderMonitoring, after the platform p (or none yet) is done
AfterFetch(platform, p) ==
  IF p = "" /\ platform \in {"all", "shopee"} THEN <<"fetch", "shopee">>
  ELSE IF p # "tiktokshop" /\ platform \in {"all", "tiktokshop"}
       THEN <<"fetch", "tiktokshop">>
       ELSE <<"reconcile", "">>

\* performOrderMonitoring: checkFrom and the select of the existing orders
MonStart(platform) ==
  /\ mon.pc[1] = "idle"
  /\ LET checkFrom == clock - MonitoringInterval IN
       mon' = [pc |-> AfterFetch(platform, ""),
               platform |-> platform,
               checkFrom |-> checkFrom,
               existing |-> [o \in OrderIds |->
                               IF orders[o].present /\ orders[o].created_at >= checkFrom
                               THEN orders[o] ELSE NoOrder],
               current |-> <<>>, sent |-> <<>>, calls |-> NoCalls, failed |-> {}]
  /\ UNCHANGED <<clock, schedVars, notifications, rateVars, invVars, remote, orders,
                 lastResponse, appVars>>

FetchOutcomes == {"ok", "error", "nocreds"}

\* a variant whose fetchers let the failure of the platform call out
FetcherResult_Raises(outcome, list) ==
  [raised |-> outcome # "ok", orders |-> IF outcome = "ok" THEN list ELSE <<>>]

\* fetchShopeeOrders / fetchTikTokShopOrders: the try block returns the
\* transformed orders, the catch block returns []; nothing is thrown to
\* performOrderMonitoring
FetcherResult(outcome, list) ==
  [raised |-> FALSE, orders |-> IF outcome = "ok" THEN list ELSE <<>>]

\* performOrderMonitoring: await fetchShopeeOrders / fetchTikTokShopOrders and
\* the monitoring log; a fetcher returns [] when the credentials are missing
\* (no call is placed) or when the call fails
MonFetch(p, outcome) ==
  /\ mon.pc = <<"fetch", p>>
  /\ LET res == FetcherResult(outcome, FetchOrders(remote, p, mon.checkFrom)) IN
       IF res.raised
       THEN /\ mon' = MonIdle
            /\ lastResponse' =
                 [runs |-> IF lastResponse.runs < MaxMonitorRuns
                           THEN lastResponse.runs + 1 ELSE MaxMonitorRuns,
                  orders |-> <<>>, success |-> FALSE,
                  failed |-> mon.failed \cup {p}]
       ELSE /\ mon' = [mon EXCEPT
                         !.current = @ \o res.orders,
                         !.calls[p] = IF outcome = "nocreds" THEN @ ELSE @ + 1,
                         !.failed = IF outcome = "ok" THEN @ ELSE @ \cup {p},
                         !.pc = AfterFetch(mon.platform, p)]
            /\ UNCHANGED lastResponse
  /\ UNCHANGED <<clock, schedVars, notifications, rateVars, invVars, remote, orders,
                 appVars>>

\* performOrderMonitoring: checkForNewOrders, then checkOrderStatusChanges;
\* each sends its alerts with sendOrderNotification
MonReconcile ==
  /\ mon.pc[1] = "reconcile"
  /\ LET alerts == NewOrderAlerts(mon.existing, mon.current)
                      \o StatusChangeAlerts(mon.existing, mon.current)
     IN /\ notifications' = notifications \o alerts
        /\ mon' = [mon EXCEPT !.sent = alerts, !.pc = <<"store", "">>]
  /\ UNCHANGED <<clock, schedVars, rateVars, invVars, remote, orders, lastResponse, appVars>>

\* performOrderMonitoring: storeOrders and the return
MonStore ==
  /\ mon.pc[1] = "store"
  /\ orders' = StoreOrders(orders, mon.current)
  /\ lastResponse' = [runs |-> IF lastResponse.runs < MaxMonitorRuns
                                THEN lastResponse.runs + 1 ELSE MaxMonitorRuns,
                       orders |-> mon.current, success |-> TRUE,
                       failed |-> mon.failed]
  /\ mon' = MonIdle
  /\ UNCHANGED <<clock, schedVars, notifications, rateVars, invVars, remote, appVars>>

(* --------------------- process-order, Orders page --------------------- *)
\* the requests to process-order that can be in flight together: the one the
\* Orders page has sent and one sent by another client
Requests == {"page", "api"}

ReqIdle ==
  [pc |-> "idle", orderId |-> 0, action |-> "", trackingNumber |-> "",
   newStatus |-> "", ok |-> FALSE]

\* the Orders page is not open
NoView == [o \in OrderIds |-> ""]

\* orders.status: the values the CHECK constraint of the table allows
OrderStatuses ==
  {"pending", "confirmed", "processing", "shipped", "delivered", "cancelled",
   "refunded"}

\* the actions a request can name: those of the switch of process-order and
\* 'deliver', which the Orders page sends for a shipped order
OrderActions == {"confirm", "ship", "cancel", "complete", "deliver"}

TrackingNumbers == {"", "TN1"}

\* process-order, the switch on action: whether it throws, and the status it
\* puts into updateData
ProcessAction(status, action, trackingNumber) ==
  CASE action = "confirm" ->
         [ok |-> status = "pending", status |-> "processing"]
    [] action = "ship" ->
         [ok |-> status = "processing" /\ trackingNumber # "", status |-> "shipped"]
    [] action = "cancel" ->
         [ok |-> status \notin {"delivered", "completed"}, status |-> "cancelled"]
    [] action = "complete" ->
         [ok |-> status = "shipped", status |-> "delivered"]
    [] OTHER -> [ok |-> FALSE, status |-> status]

\* process-order: the notification inserted after the update
OrderUpdate(action) == [type |-> "order_update", action |-> action, is_read |-> FALSE]

\* process-order: the Authorization header and auth.getUser, then the body
PoStart(r, o, action, trackingNumber, authorized) ==
  /\ req[r].pc = "idle"
  /\ req' = [req EXCEPT ![r] =
               [pc |-> IF authorized THEN "read" ELSE "responded",
                orderId |-> o, action |-> action,
                trackingNumber |-> trackingNumber, newStatus |-> "", ok |-> FALSE]]
  /\ UNCHANGED <<clock, schedVars, notifications, rateVars, invVars, monVars,
                 response, tenantRows, view, env>>

\* process-order: the select of the order and the switch; a throw is
\* answered with status 400
PoRead(r) ==
  /\ req[r].pc = "read"
  /\ LET row == orders[req[r].orderId]
         res == ProcessAction(row.status, req[r].action, req[r].trackingNumber)
     IN req' = [req EXCEPT ![r] =
                  IF row.present /\ res.ok
                  THEN [@ EXCEPT !.pc = "update", !.newStatus = res.status]
                  ELSE [@ EXCEPT !.pc = "responded"]]
  /\ UNCHANGED <<clock, schedVars, notifications, rateVars, invVars, monVars,
                 response, tenantRows, view, env>>

\* process-order: update(updateData).eq('id', orderId); the row is written
\* whatever its status is by now
WriteOrder(tbl, rq) ==
  [tbl EXCEPT ![rq.orderId] =
     [@ EXCEPT !.status = rq.newStatus,
               !.tracking_number = IF rq.action = "ship"
                                   THEN rq.trackingNumber ELSE @]]

PoUpdate(r) ==
  /\ req[r].pc = "update"
  /\ orders' = WriteOrder(orders, req[r])
  /\ req' = [req EXCEPT ![r] = [@ EXCEPT !.pc = "notify"]]
  /\ UNCHANGED <<clock, schedVars, notifications, rateVars, invVars, remote, mon,
                 lastResponse, response, tenantRows, view, env>>

\* process-order: the platform stub, the notification and the response
PoNotify(r) ==
  /\ req[r].pc = "notify"
  /\ notifications' = Append(notifications, OrderUpdate(req[r].action))
  /\ req' = [req EXCEPT ![r] = [@ EXCEPT !.pc = "responded", !.ok = TRUE]]
  /\ UNCHANGED <<clock, schedVars, rateVars, invVars, monVars,
                 response, tenantRows, view, env>>

\* loadOrders: the statuses the page shows
LoadOrders == [o \in OrderIds |-> IF orders[o].present THEN orders[o].status ELSE ""]

\* the client gets the response; handleProcessOrder alerts and, on success,
\* calls loadOrders
PoDone(r) ==
  /\ req[r].pc = "responded"
  /\ view' = IF r = "page" /\ req[r].ok THEN LoadOrders ELSE view
  /\ req' = [req EXCEPT ![r] = ReqIdle]
  /\ UNCHANGED <<clock, schedVars, notifications, rateVars, invVars, monVars,
                 response, tenantRows, env>>

\* OrdersPage: the action buttons shown for an order of the given status
Offered(status) ==
  CASE status = "pending"   -> {"confirm", "cancel"}
    [] status = "confirmed" -> {"ship", "cancel"}
    [] status = "shipped"   -> {"deliver"}
    [] OTHER                -> {}

\* handleProcessOrder: a button is pressed; 'ship' prompts for the tracking
\* number and gives up without one; the signed-in user's request is sent
PageClick(o, action, trackingNumber) ==
  /\ action \in Offered(view[o])
  /\ action = "ship" => trackingNumber # ""
  /\ PoStart("page", o, action, IF action = "ship" THEN trackingNumber ELSE "", TRUE)

\* no run_now or cancel request has been answered yet
NoReply ==
  [action |-> "", job_type |-> "", platform |-> "", job_id |-> 0,
   running |-> {}, success |-> FALSE]

(* ------------------------------- Init --------------------------------- *)
InitSchedules ==
  {ss \in [ScheduleIds -> [job_type : {"order_monitor", "status_sync"},
                           platform : {"shopee", "all"},
                           interval_minutes : {5, 30},
                           is_active : BOOLEAN,
                           priority : {"high", "low"},
                           next_run : {0, 5},
                           last_run : {NoTime}]] :
     /\ ss[1].job_type = "order_monitor" /\ ss[1].platform = "shopee"
     /\ ss[1].interval_minutes = 5 /\ ss[1].priority = "high"
     /\ ss[2].job_type = "status_sync" /\ ss[2].platform = "all"
     /\ ss[2].interval_minutes = 30 /\ ss[2].priority = "low"}

Init ==
  /\ clock = 0
  /\ schedules \in InitSchedules
  /\ jobs = <<>>
  /\ jobMeta = <<>>
  /\ notifications = <<>>
  /\ pc = [i \in Invocations |-> "idle"]
  /\ due = [i \in Invocations |-> <<>>]
  /\ cur = [i \in Invocations |-> 0]
  /\ failedSnap = [i \in Invocations |-> <<>>]
  /\ dueAtStart = [i \in Invocations |-> {}]
  /\ jobsAtStart = [i \in Invocations |-> 0]
  /\ seenExhausted = [i \in Invocations |-> {}]
  /\ sync_operations = [p \in RatePlatforms |-> [t \in {0} |-> 0]]
  /\ batch = <<>>
  /\ todo = <<>>
  /\ syncResult = NoResult
  /\ syncPhase = "idle"
  /\ products = [k \in ProductIds |->
                   [stock_quantity |-> 12, low_stock_threshold |-> 10]]
  /\ stockSeen = [k \in ProductIds |-> <<12, 12>>]
  /\ remote = <<>>
  /\ orders = [o \in OrderIds |-> NoOrder]
  /\ mon = MonIdle
  /\ lastResponse = NoResponse
  /\ response = NoReply
  /\ tenantRows = [p \in RatePlatforms |-> [t \in {0} |-> 0]]
  /\ req = [r \in Requests |-> ReqIdle]
  /\ view = NoView
  /\ env \in BOOLEAN
  /\ scheduler_logs = {}

(* ------------------------------ actions ------------------------------- *)
\* time passes
AdvanceClock ==
  /\ clock + ClockStep <= MaxClock
  /\ clock' = clock + ClockStep
  /\ UNCHANGED <<schedVars, notifications, rateVars,
                 invVars, monVars, appVars>>

\* a variant of the handler that does not look at the environment
ServeAccepts_NoCheck == TRUE

\* serve: without the Supabase credentials the handler throws before
\* performSchedulerAction and answers 500
ServeAccepts == env

\* performSchedulerAction, default branch: runScheduledJobs starts with
\* getActiveSchedules; with no due schedule it returns and retryFailedJobs
\* is next
TickStart(i) ==
  /\ ServeAccepts
  /\ pc[i] = "idle"
  /\ scheduler_logs' = IF GetActiveSchedules = <<>> THEN scheduler_logs
                       ELSE scheduler_logs \cup {<<"scheduler_check", 0>>}
  /\ due' = [due EXCEPT ![i] = GetActiveSchedules]
  /\ dueAtStart' = [dueAtStart EXCEPT ![i] = {s \in ScheduleIds : IsDue(s)}]
  /\ jobsAtStart' = [jobsAtStart EXCEPT ![i] = Len(jobs)]
  /\ seenExhausted' = [seenExhausted EXCEPT ![i] = {}]
  /\ pc' = [pc EXCEPT ![i] = IF GetActiveSchedules = <<>>
                             THEN "retry_fetch" ELSE "create"]
  /\ UNCHANGED <<clock, schedules, jobs, jobMeta, notifications, cur, failedSnap,
                 rateVars,
                 invVars, monVars, appVars>>

\* runScheduledJobs, loop body up to executeSyncJob: createSyncJob, then
\* updateScheduleNextRun(calculateNextRun(interval))
CreateScheduledJob(i) ==
  /\ pc[i] = "create"
  /\ Len(jobs) < MaxJobs
  /\ LET s == Head(due[i]) IN
       /\ jobs' = Append(jobs, CreateSyncJob(schedules[s].job_type,
                                             schedules[s].platform, "pending",
                                             clock, schedules[s].priority))
       /\ jobMeta' = Append(jobMeta, [origin |-> "schedule", ref |-> s, by |-> i,
                                       created_at |-> clock, backoff |-> 0])
       /\ schedules' = UpdateScheduleNextRun(schedules, s,
                          CalculateNextRun(schedules[s].interval_minutes))
  /\ scheduler_logs' = scheduler_logs \cup {<<"job_created", Len(jobs) + 1>>}
  /\ cur' = [cur EXCEPT ![i] = Len(jobs) + 1]
  /\ pc' = [pc EXCEPT ![i] = "exec_start"]
  /\ UNCHANGED <<clock, notifications, due, failedSnap, dueAtStart,
                 jobsAtStart, seenExhausted, rateVars,
                 invVars, monVars, appVars>>

\* executeSyncJob up to its first await.  Without the credentials it throws
\* before its try block: the catch of runScheduledJobs logs the error and
\* the loop over the due schedules is left; else updateJobStatus(job.id,
\* 'running')
ExecStart(i) ==
  /\ pc[i] = "exec_start"
  /\ IF env
     THEN /\ jobs' = UpdateJobStatus(jobs, cur[i], "running", jobs[cur[i]].result,
                                     jobs[cur[i]].error_message)
          /\ pc' = [pc EXCEPT ![i] = "exec_fetch"]
          /\ UNCHANGED <<due, cur, scheduler_logs>>
     ELSE /\ scheduler_logs' = scheduler_logs \cup {<<"scheduler_error", 0>>}
          /\ due' = [due EXCEPT ![i] = <<>>]
          /\ cur' = [cur EXCEPT ![i] = 0]
          /\ pc' = [pc EXCEPT ![i] = "retry_fetch"]
          /\ UNCHANGED jobs
  /\ UNCHANGED <<clock, schedules, jobMeta, notifications,
                 failedSnap, dueAtStart, jobsAtStart, seenExhausted, rateVars,
                 invVars, monVars, appVars>>

\* executeSyncJob: the row written to scheduler_logs after the final
\* updateJobStatus: job_completed, job_failed for a response that is not a
\* success, job_error for an exception caught by the executor
ExecLog(id, type, succeeded) ==
  <<IF succeeded THEN "job_completed"
    ELSE IF type \in {"inventory_sync", "order_monitor", "status_sync"}
    THEN "job_failed" ELSE "job_error", id>>

\* executeSyncJob: what the job's type and the function's response lead to
JobOutcomes(type) == IF type = "bulk_sync" THEN {"permanent"} ELSE Outcomes

\* executeSyncJob: the fetch of the function and the final updateJobStatus;
\* then the loop of runScheduledJobs goes on with the next schedule
ExecFinish(i, outcome) ==
  /\ pc[i] = "exec_fetch"
  /\ outcome \in JobOutcomes(jobs[cur[i]].type)
  /\ jobs' = IF outcome = "ok"
             THEN UpdateJobStatus(jobs, cur[i], "completed", "result", "")
             ELSE UpdateJobStatus(jobs, cur[i], "failed", "null", outcome)
  /\ scheduler_logs' = scheduler_logs \cup
                         {ExecLog(cur[i], jobs[cur[i]].type, outcome = "ok")}
  /\ due' = [due EXCEPT ![i] = Tail(@)]
  /\ cur' = [cur EXCEPT ![i] = 0]
  /\ pc' = [pc EXCEPT ![i] = IF Tail(due[i]) = <<>>
                             THEN "retry_fetch" ELSE "create"]
  /\ UNCHANGED <<clock, schedules, jobMeta, notifications, failedSnap,
                 dueAtStart, jobsAtStart, seenExhausted, rateVars,
                 invVars, monVars, appVars>>

\* the inventory-sync handler's response to performInventorySync's result:
\* status 200 or 207 and a body with success, message and data, without an
\* error member
SyncResponse(res) ==
  [status |-> IF res.success THEN 200 ELSE 207, success |-> res.success,
   error |-> ""]

HttpStatusMessage(status) == IF status = 207 THEN "HTTP 207" ELSE "HTTP 500"

\* executeSyncJob: result.error?.message || `HTTP ${response.status}: ...`
ResponseErrorMessage(resp) ==
  IF resp.error # "" THEN resp.error ELSE HttpStatusMessage(resp.status)

\* executeSyncJob: response.ok && result.success
ResponseSucceeded(resp) == resp.status \in 200..299 /\ resp.success

\* executeSyncJob of an inventory_sync or status_sync job: the fetch posts to
\* the inventory-sync function
InvokeSync(i, needs, n) ==
  /\ pc[i] = "exec_fetch"
  /\ jobs[cur[i]].type \in {"inventory_sync", "status_sync"}
  /\ StartSync(needs, n)

\* executeSyncJob: the response of inventory-sync has arrived; the final
\* updateJobStatus, and the loop of runScheduledJobs goes on
ExecFinishSync(i) ==
  /\ pc[i] = "exec_fetch"
  /\ syncPhase = "returned"
  /\ LET resp == SyncResponse(syncResult) IN
       /\ jobs' = IF ResponseSucceeded(resp)
                  THEN UpdateJobStatus(jobs, cur[i], "completed", "result", "")
                  ELSE UpdateJobStatus(jobs, cur[i], "failed", "null",
                                       ResponseErrorMessage(resp))
       /\ scheduler_logs' = scheduler_logs \cup
             {ExecLog(cur[i], jobs[cur[i]].type, ResponseSucceeded(resp))}
  /\ due' = [due EXCEPT ![i] = Tail(@)]
  /\ cur' = [cur EXCEPT ![i] = 0]
  /\ pc' = [pc EXCEPT ![i] = IF Tail(due[i]) = <<>>
                             THEN "retry_fetch" ELSE "create"]
  /\ syncPhase' = "idle"
  /\ batch' = <<>>
  /\ UNCHANGED <<clock, schedules, jobMeta, notifications, failedSnap,
                 dueAtStart, jobsAtStart, seenExhausted, sync_operations, todo,
                 syncResult, invVars, monVars, appVars>>

\* the order-monitor handler's response to performOrderMonitoring's result:
\* status 200 or 500 and a body with success, message and data, without an
\* error member
MonitorResponse(lr) ==
  [status |-> IF lr.success THEN 200 ELSE 500, success |-> lr.success,
   error |-> ""]

\* executeSyncJob of an order_monitor job: the fetch posts the job's platform
\* to the order-monitor function
InvokeMonitor(i) ==
  /\ pc[i] = "exec_fetch"
  /\ jobs[cur[i]].type = "order_monitor"
  /\ lastResponse.runs = 0
  /\ MonStart(jobs[cur[i]].platform)

\* executeSyncJob: the response of order-monitor has arrived; the final
\* updateJobStatus, and the loop of runScheduledJobs goes on
ExecFinishMonitor(i) ==
  /\ pc[i] = "exec_fetch"
  /\ jobs[cur[i]].type = "order_monitor"
  /\ lastResponse.runs = 1 /\ mon.pc[1] = "idle"
  /\ LET resp == MonitorResponse(lastResponse) IN
       /\ jobs' = IF ResponseSucceeded(resp)
                  THEN UpdateJobStatus(jobs, cur[i], "completed", "result", "")
                  ELSE UpdateJobStatus(jobs, cur[i], "failed", "null",
                                       ResponseErrorMessage(resp))
       /\ scheduler_logs' = scheduler_logs \cup
             {ExecLog(cur[i], jobs[cur[i]].type, ResponseSucceeded(resp))}
  /\ due' = [due EXCEPT ![i] = Tail(@)]
  /\ cur' = [cur EXCEPT ![i] = 0]
  /\ pc' = [pc EXCEPT ![i] = IF Tail(due[i]) = <<>>
                             THEN "retry_fetch" ELSE "create"]
  /\ UNCHANGED <<clock, schedules, jobMeta, notifications, failedSnap,
                 dueAtStart, jobsAtStart, seenExhausted, rateVars,
                 invVars, monVars, appVars>>

\* executeSyncJob of a job of another type
ExecFinishOther(i, outcome) ==
  /\ pc[i] = "exec_fetch"
  /\ jobs[cur[i]].type # "order_monitor"
  /\ ExecFinish(i, outcome)

\* retryFailedJobs: the select; the rows are copies taken now
RetryFetch(i) ==
  /\ pc[i] = "retry_fetch"
  /\ LET ids == Ascending({j \in 1..Len(jobs) : IsRetryCandidate(j)})
         rows == [k \in 1..Len(ids) |->
                    [id |-> ids[k],
                     retry_count |-> jobs[ids[k]].retry_count,
                     max_retries |-> jobs[ids[k]].max_retries]]
     IN /\ failedSnap' = [failedSnap EXCEPT ![i] = rows]
        /\ pc' = [pc EXCEPT ![i] = IF rows = <<>> THEN "idle" ELSE "retry_loop"]
        /\ dueAtStart' = IF rows = <<>> THEN [dueAtStart EXCEPT ![i] = {}]
                         ELSE dueAtStart
        /\ jobsAtStart' = IF rows = <<>> THEN [jobsAtStart EXCEPT ![i] = 0]
                          ELSE jobsAtStart
  /\ seenExhausted' = [seenExhausted EXCEPT ![i] =
        {j \in 1..Len(jobs) : /\ jobs[j].status = "failed"
                              /\ jobs[j].retry_count >= jobs[j].max_retries}]
  /\ UNCHANGED <<clock, schedules, jobs, jobMeta, notifications, due, cur,
                 scheduler_logs, rateVars,
                 invVars, monVars, appVars>>

\* a variant that retries by putting the failed row back to pending
BumpRetryCount_Requeue(js, row) ==
  [js EXCEPT ![row.id] = [@ EXCEPT !.retry_count = row.retry_count + 1,
                                   !.status = "pending"]]

\* retryFailedJobs, loop body: the write to the original job's row
BumpRetryCount(js, row) ==
  [js EXCEPT ![row.id] = [@ EXCEPT !.retry_count = row.retry_count + 1]]

\* retryFailedJobs, loop body for one row
RetryOne(i) ==
  /\ pc[i] = "retry_loop"
  /\ LET row == Head(failedSnap[i])
         job == jobs[row.id]
     IN IF row.retry_count < EffectiveMaxRetries(row)
        THEN /\ Len(jobs) < MaxJobs
             /\ jobs' = Append(BumpRetryCount(jobs, row),
                          CreateSyncJob(job.type, job.platform, "pending",
                             clock + BackoffMinutes(row.retry_count),
                             job.priority))
             /\ jobMeta' = Append(jobMeta,
                             [origin |-> "retry", ref |-> row.id, by |-> i,
                              created_at |-> clock,
                              backoff |-> BackoffMinutes(row.retry_count)])
             /\ scheduler_logs' = scheduler_logs \cup
                   {<<"job_created", Len(jobs) + 1>>,
                    <<"job_retry_scheduled", row.id>>}
        ELSE UNCHANGED <<jobs, jobMeta, scheduler_logs>>
  /\ failedSnap' = [failedSnap EXCEPT ![i] = Tail(@)]
  /\ pc' = [pc EXCEPT ![i] = IF Tail(failedSnap[i]) = <<>>
                             THEN "idle" ELSE "retry_loop"]
  /\ dueAtStart' = IF Tail(failedSnap[i]) = <<>>
                   THEN [dueAtStart EXCEPT ![i] = {}] ELSE dueAtStart
  /\ jobsAtStart' = IF Tail(failedSnap[i]) = <<>>
                    THEN [jobsAtStart EXCEPT ![i] = 0] ELSE jobsAtStart
  /\ UNCHANGED <<clock, schedules, notifications, due, cur, seenExhausted,
                 rateVars,
                 invVars, monVars, appVars>>

\* performSchedulerAction 'run_now' -> scheduleJobNow
\* a variant whose immediate jobs take the priority of a scheduled job
ScheduleJobNow_Medium(type, platform) ==
  CreateSyncJob(type, platform, "pending", clock, "medium")

\* scheduleJobNow: the row handed to createSyncJob
ScheduleJobNow(type, platform) ==
  CreateSyncJob(type, platform, "pending", clock, "high")

\* performSchedulerAction 'run_now': without job_type or platform it throws,
\* and the catch returns success false; else scheduleJobNow
RunNow(type, platform) ==
  /\ ServeAccepts
  /\ Len(jobs) < MaxJobs
  /\ IF type = "" \/ platform = ""
     THEN /\ response' = [action |-> "run_now", job_type |-> type,
                          platform |-> platform, job_id |-> 0, running |-> {},
                          success |-> FALSE]
          /\ scheduler_logs' = scheduler_logs \cup
                                 {<<"scheduler_action_error", 0>>}
          /\ UNCHANGED <<jobs, jobMeta>>
     ELSE /\ jobs' = Append(jobs, ScheduleJobNow(type, platform))
          /\ jobMeta' = Append(jobMeta,
                          [origin |-> "manual", ref |-> 0, by |-> "run_now",
                           created_at |-> clock, backoff |-> 0])
          /\ response' = [action |-> "run_now", job_type |-> type,
                          platform |-> platform, job_id |-> Len(jobs) + 1,
                          running |-> {}, success |-> TRUE]
          /\ scheduler_logs' = scheduler_logs \cup {<<"job_created", Len(jobs) + 1>>}
  /\ UNCHANGED <<clock, schedules, notifications, pc, due, cur, failedSnap,
                 dueAtStart, jobsAtStart, seenExhausted, rateVars,
                 invVars, monVars, tenantRows, req, view, env>>

\* a variant that marks the jobs in flight cancelled
Cancel_Running ==
  /\ ServeAccepts
  /\ response' = [action |-> "cancel", job_type |-> "", platform |-> "",
                  job_id |-> 0,
                  running |-> {j \in 1..Len(jobs) : jobs[j].status = "running"},
                  success |-> TRUE]
  /\ jobs' = [j \in 1..Len(jobs) |->
               IF jobs[j].status = "running"
               THEN [jobs[j] EXCEPT !.status = "cancelled"] ELSE jobs[j]]
  /\ UNCHANGED <<clock, schedules, jobMeta, pc, due, cur, failedSnap,
                 dueAtStart, jobsAtStart, seenExhausted, scheduler_logs,
                 notifications, rateVars, invVars, monVars,
                 tenantRows, req, view, env>>

\* performSchedulerAction 'cancel': returns success and writes nothing; the
\* reply records which jobs were running when the request was answered
\* (history)
Cancel ==
  /\ ServeAccepts
  /\ response' = [action |-> "cancel", job_type |-> "", platform |-> "",
                  job_id |-> 0,
                  running |-> {j \in 1..Len(jobs) : jobs[j].status = "running"},
                  success |-> TRUE]
  /\ UNCHANGED <<clock, schedVars, notifications, rateVars, invVars, monVars,
                 tenantRows, req, view, env>>

\* the scheduler function invoked by one periodic driver: a tick ends before
\* the next one starts
Next ==
  \/ AdvanceClock
  \/ TickStart("cron")
  \/ CreateScheduledJob("cron")
  \/ ExecStart("cron")
  \/ \E o \in Outcomes : ExecFinish("cron", o)
  \/ RetryFetch("cron")
  \/ RetryOne("cron")
  \/ \E t \in {"inventory_sync"}, p \in {"shopee"} : RunNow(t, p)

Spec == Init /\ [][Next]_vars

\* two requests to the scheduler function whose handlers overlap
InitOverlap ==
  /\ Init
  /\ env
  /\ schedules[1].is_active /\ schedules[1].next_run = 0
  /\ schedules[2].is_active /\ schedules[2].next_run = 0

NextOverlap ==
  \/ \E i \in Invocations : TickStart(i)
  \/ \E i \in Invocations : CreateScheduledJob(i)
  \/ \E i \in Invocations : ExecStart(i)
  \/ \E i \in Invocations, o \in {"ok", "transient"} : ExecFinish(i, o)
  \/ \E i \in Invocations : RetryFetch(i)
  \/ \E i \in Invocations : RetryOne(i)

SpecOverlap == InitOverlap /\ [][NextOverlap]_vars

\* the inventory-sync function; the rows already in sync_operations were
\* logged by earlier requests, made for other tenants' products
PriorCalls ==
  {[p \in RatePlatforms |-> 0],
   [p \in RatePlatforms |-> RateLimitRequests(p) - 1],
   [p \in RatePlatforms |-> RateLimitRequests(p)]}

InitRate ==
  /\ clock = 0
  /\ schedules \in {ss \in InitSchedules : \A s \in ScheduleIds :
                       ~ss[s].is_active /\ ss[s].next_run = 0}
  /\ jobs = <<>>
  /\ jobMeta = <<>>
  /\ notifications = <<>>
  /\ pc = [i \in Invocations |-> "idle"]
  /\ due = [i \in Invocations |-> <<>>]
  /\ cur = [i \in Invocations |-> 0]
  /\ failedSnap = [i \in Invocations |-> <<>>]
  /\ dueAtStart = [i \in Invocations |-> {}]
  /\ jobsAtStart = [i \in Invocations |-> 0]
  /\ seenExhausted = [i \in Invocations |-> {}]
  /\ \E prior \in PriorCalls :
       sync_operations = [p \in RatePlatforms |-> [t \in {0} |-> prior[p]]]
  /\ batch = <<>>
  /\ todo = <<>>
  /\ syncResult = NoResult
  /\ syncPhase = "idle"
  /\ products \in [ProductIds -> [stock_quantity : {8, 12},
                                   low_stock_threshold : Thresholds]]
  /\ stockSeen = [k \in ProductIds |->
                    <<products[k].stock_quantity, products[k].stock_quantity>>]
  /\ remote = <<>>
  /\ orders = [o \in OrderIds |-> NoOrder]
  /\ mon = MonIdle
  /\ lastResponse = NoResponse
  /\ response = NoReply
  /\ tenantRows = [p \in RatePlatforms |-> [t \in {0} |-> 0]]
  /\ req = [r \in Requests |-> ReqIdle]
  /\ view = NoView
  /\ env = TRUE
  /\ scheduler_logs = {}

NextRate ==
  \/ PassTime
  \/ \E needs \in ListingKinds, n \in 1..MaxProducts : StartSync(needs, n)
  \/ \E k \in 1..MaxProducts, queryFails \in BOOLEAN : CheckStep(k, queryFails)
  \/ \E k \in 1..MaxProducts, success \in BOOLEAN : CallStep(k, success)
  \/ \E k \in 1..MaxProducts : LogStep(k)
  \/ \E k \in 1..MaxProducts : AlertStep(k)
  \/ FinishBatch

SpecRate == InitRate /\ [][NextRate]_vars

\* the inventory-sync function requested again and again while the stock of
\* the products changes
InitStock ==
  /\ Init
  /\ env
  /\ \A s \in ScheduleIds : ~schedules[s].is_active /\ schedules[s].next_run = 0

NextStock ==
  \/ \E q \in StockLevels : SetStock(1, q)
  \/ \E needs \in {[p \in RatePlatforms |-> p = "shopee"]} : StartSync(needs, 1)
  \/ \E k \in ProductIds : CheckStep(k, FALSE)
  \/ \E k \in ProductIds : CallStep(k, TRUE)
  \/ \E k \in ProductIds : LogStep(k)
  \/ \E k \in ProductIds : AlertStep(k)
  \/ FinishBatch
  \/ NextRequest

SpecStock == InitStock /\ [][NextStock]_vars

\* one scheduler tick whose status_sync job runs the inventory-sync function;
\* the schedule is for one platform or for all
InitJob ==
  /\ clock = 0
  /\ \E ss \in InitSchedules, p \in {"shopee", "all"} :
       /\ ~ss[1].is_active /\ ss[1].next_run = 0
       /\ ss[2].is_active /\ ss[2].next_run = 0
       /\ schedules = [ss EXCEPT ![2].platform = p]
  /\ jobs = <<>>
  /\ jobMeta = <<>>
  /\ notifications = <<>>
  /\ pc = [i \in Invocations |-> "idle"]
  /\ due = [i \in Invocations |-> <<>>]
  /\ cur = [i \in Invocations |-> 0]
  /\ failedSnap = [i \in Invocations |-> <<>>]
  /\ dueAtStart = [i \in Invocations |-> {}]
  /\ jobsAtStart = [i \in Invocations |-> 0]
  /\ seenExhausted = [i \in Invocations |-> {}]
  /\ \E prior \in PriorCalls :
       sync_operations = [p \in RatePlatforms |-> [t \in {0} |-> prior[p]]]
  /\ batch = <<>>
  /\ todo = <<>>
  /\ syncResult = NoResult
  /\ syncPhase = "idle"
  /\ products \in [ProductIds -> [stock_quantity : {8, 12},
                                   low_stock_threshold : Thresholds]]
  /\ stockSeen = [k \in ProductIds |->
                    <<products[k].stock_quantity, products[k].stock_quantity>>]
  /\ remote = <<>>
  /\ orders = [o \in OrderIds |-> NoOrder]
  /\ mon = MonIdle
  /\ lastResponse = NoResponse
  /\ response = NoReply
  /\ tenantRows = [p \in RatePlatforms |-> [t \in {0} |-> 0]]
  /\ req = [r \in Requests |-> ReqIdle]
  /\ view = NoView
  /\ env = TRUE
  /\ scheduler_logs = {}

NextJob ==
  \/ TickStart("cron")
  \/ CreateScheduledJob("cron")
  \/ ExecStart("cron")
  \/ \E needs \in ListingKinds, n \in 1..MaxProducts : InvokeSync("cron", needs, n)
  \/ \E k \in 1..MaxProducts, queryFails \in BOOLEAN : CheckStep(k, queryFails)
  \/ \E k \in 1..MaxProducts, success \in BOOLEAN : CallStep(k, success)
  \/ \E k \in 1..MaxProducts : LogStep(k)
  \/ \E k \in 1..MaxProducts : AlertStep(k)
  \/ FinishBatch
  \/ ExecFinishSync("cron")
  \/ RetryFetch("cron")
  \/ RetryOne("cron")

SpecJob == InitJob /\ [][NextJob]_vars

\* the scheduler function invoked for ever by its periodic driver, with
\* run_now and cancel requests in between; at most one run_now job is asked for
InitManual ==
  /\ Init
  /\ ~schedules[1].is_active /\ schedules[1].next_run = 0

NoManualJob == \A j \in 1..Len(jobMeta) : jobMeta[j].origin # "manual"

TickStep ==
  \/ TickStart("cron")
  \/ CreateScheduledJob("cron")
  \/ ExecStart("cron")
  \/ \E o \in {"ok", "transient"} : ExecFinish("cron", o)
  \/ RetryFetch("cron")
  \/ RetryOne("cron")

NextManual ==
  \/ AdvanceClock
  \/ TickStep
  \/ \E t \in {"inventory_sync", ""}, p \in {"shopee", ""} :
       NoManualJob /\ RunNow(t, p)
  \/ Cancel

SpecManual ==
  InitManual /\ [][NextManual]_vars /\ WF_vars(TickStep) /\ WF_vars(AdvanceClock)

\* one scheduler tick whose order_monitor job runs the order-monitor function
\* while orders are placed and move on at the platforms
InitMonitorJob ==
  /\ Init
  /\ env
  /\ schedules[1].is_active /\ schedules[1].next_run = 0
  /\ schedules[2].next_run = 0

NextMonitorJob ==
  \/ \E o \in OrderIds : RemoteNewOrder(o)
  \/ \E k \in 1..MaxRemote : RemoteUpdate(k)
  \/ TickStart("cron")
  \/ CreateScheduledJob("cron")
  \/ ExecStart("cron")
  \/ InvokeMonitor("cron")
  \/ \E p \in RatePlatforms, outcome \in FetchOutcomes : MonFetch(p, outcome)
  \/ MonReconcile
  \/ MonStore
  \/ ExecFinishMonitor("cron")
  \/ \E o \in {"ok", "transient"} : ExecFinishOther("cron", o)
  \/ RetryFetch("cron")
  \/ RetryOne("cron")

SpecMonitorJob == InitMonitorJob /\ [][NextMonitorJob]_vars

\* the process-order function requested by the Orders page and, at the same
\* time, by another client of the same user
OrderRow(status) ==
  [present |-> TRUE, status |-> status, total_amount |-> 0, created_at |-> 0,
   tracking_number |-> ""]

\* the orders table holds the user's orders, each in one of `statuses`, and
\* the Orders page has loaded them
InitOrders(statuses) ==
  /\ clock = 0
  /\ schedules \in {ss \in InitSchedules : \A s \in ScheduleIds :
                       ~ss[s].is_active /\ ss[s].next_run = 0}
  /\ jobs = <<>>
  /\ jobMeta = <<>>
  /\ notifications = <<>>
  /\ pc = [i \in Invocations |-> "idle"]
  /\ due = [i \in Invocations |-> <<>>]
  /\ cur = [i \in Invocations |-> 0]
  /\ failedSnap = [i \in Invocations |-> <<>>]
  /\ dueAtStart = [i \in Invocations |-> {}]
  /\ jobsAtStart = [i \in Invocations |-> 0]
  /\ seenExhausted = [i \in Invocations |-> {}]
  /\ sync_operations = [p \in RatePlatforms |-> [t \in {0} |-> 0]]
  /\ batch = <<>>
  /\ todo = <<>>
  /\ syncResult = NoResult
  /\ syncPhase = "idle"
  /\ products = [k \in ProductIds |->
                   [stock_quantity |-> 12, low_stock_threshold |-> 10]]
  /\ stockSeen = [k \in ProductIds |-> <<12, 12>>]
  /\ remote = <<>>
  /\ \E st \in [OrderIds -> statuses] :
       /\ orders = [o \in OrderIds |-> OrderRow(st[o])]
       /\ view = st
  /\ mon = MonIdle
  /\ lastResponse = NoResponse
  /\ response = NoReply
  /\ tenantRows = [p \in RatePlatforms |-> [t \in {0} |-> 0]]
  /\ req = [r \in Requests |-> ReqIdle]
  /\ env = TRUE
  /\ scheduler_logs = {}

InitProcess == InitOrders(OrderStatuses)

NextProcess ==
  \/ \E o \in OrderIds, a \in OrderActions, t \in TrackingNumbers :
       Len(notifications) < MaxOrderUpdates /\ PageClick(o, a, t)
  \/ \E o \in OrderIds, a \in OrderActions, t \in TrackingNumbers,
         authorized \in BOOLEAN :
       Len(notifications) < MaxOrderUpdates /\ PoStart("api", o, a, t, authorized)
  \/ \E r \in Requests : PoRead(r)
  \/ \E r \in Requests : PoUpdate(r)
  \/ \E r \in Requests : PoNotify(r)
  \/ \E r \in Requests : PoDone(r)

SpecProcess == InitProcess /\ [][NextProcess]_vars

\* the Orders page used by a user who takes every order through its
\* lifecycle: whenever the page offers confirm, ship or mark-delivered for an
\* order, the user sooner or later presses it
LifecycleActions == {"confirm", "ship", "deliver"}

PageStepOn(o) ==
  \/ \E a \in LifecycleActions : PageClick(o, a, "TN1")
  \/ req["page"].orderId = o /\ PoRead("page")
  \/ req["page"].orderId = o /\ PoUpdate("page")
  \/ req["page"].orderId = o /\ PoNotify("page")
  \/ req["page"].orderId = o /\ PoDone("page")

NextPage == \E o \in OrderIds : PageStepOn(o)

SpecPage ==
  InitProcess /\ [][NextPage]_vars /\ \A o \in OrderIds : SF_vars(PageStepOn(o))

\* the order-monitor function requested again and again while orders are
\* placed and move on at the platforms
InitMonitor ==
  /\ Init
  /\ env
  /\ \A s \in ScheduleIds : ~schedules[s].is_active /\ schedules[s].next_run = 0

NextMonitor ==
  \/ AdvanceClock
  \/ \E o \in OrderIds : RemoteNewOrder(o)
  \/ \E k \in 1..MaxRemote : RemoteUpdate(k)
  \/ \E k \in 1..MaxRemote : RemoteReport(k)
  \/ \E platform \in MonitorPlatforms :
       lastResponse.runs < MaxMonitorRuns /\ MonStart(platform)
  \/ \E p \in RatePlatforms, outcome \in FetchOutcomes : MonFetch(p, outcome)
  \/ MonReconcile
  \/ MonStore

SpecMonitor == InitMonitor /\ [][NextMonitor]_vars

\* the order-monitor function polling both platforms for ever, every fetch
\* succeeding and every order listed once
NextMonitorFair ==
  \/ AdvanceClock
  \/ \E o \in OrderIds : RemoteNewOrder(o)
  \/ \E k \in 1..MaxRemote : RemoteUpdate(k)
  \/ MonStart("all")
  \/ \E p \in RatePlatforms : MonFetch(p, "ok")
  \/ MonReconcile
  \/ MonStore

MonitorStep ==
  \/ MonStart("all")
  \/ \E p \in RatePlatforms : MonFetch(p, "ok")
  \/ MonReconcile
  \/ MonStore

SpecMonitorFair ==
  InitMonitor /\ [][NextMonitorFair]_vars /\ WF_vars(MonitorStep)

(* ============================ properties ============================== *)
JobIds == 1..Len(jobs)
RetryJobs == {r \in JobIds : jobMeta[r].origin = "retry"}

RECURSIVE Root(_)
\* the job a chain of retries started from
Root(j) == IF jobMeta[j].origin = "retry" THEN Root(jobMeta[j].ref) ELSE j

\* the jobs invocation i created for schedule s since its tick started
CreatedInTick(i, s) ==
  {j \in JobIds : /\ j > jobsAtStart[i]
                  /\ jobMeta[j].by = i
                  /\ jobMeta[j].origin = "schedule"
                  /\ jobMeta[j].ref = s}

\* C1: when the schedule loop of a tick is over, every schedule that was
\* active and due when the tick started has exactly one job created by this
\* tick, its next_run is the time of that dispatch plus its interval, and no
\* other schedule got a job.
C1_OneJobAndNextRunFromNow ==
  \A i \in Invocations :
    pc[i] \in {"retry_fetch", "retry_loop"} =>
      \A s \in ScheduleIds :
        IF s \in dueAtStart[i]
        THEN /\ Cardinality(CreatedInTick(i, s)) = 1
             /\ \A j \in CreatedInTick(i, s) :
                  /\ jobs[j].type = schedules[s].job_type
                  /\ jobs[j].platform = schedules[s].platform
                  /\ schedules[s].next_run =
                       jobMeta[j].created_at + schedules[s].interval_minutes
        ELSE CreatedInTick(i, s) = {}

\* a tick that started late (after time 0) has dispatched both schedules
C1_Witness ==
  /\ pc["cron"] = "retry_fetch"
  /\ dueAtStart["cron"] = ScheduleIds
  /\ clock > 0
  /\ \A s \in ScheduleIds : Cardinality(CreatedInTick("cron", s)) = 1

StatusStepOk(a, b) ==
  \/ a = b
  \/ a = "pending" /\ b = "running"
  \/ a = "running" /\ b \in TerminalStatuses

\* C2: in every step no job row disappears and each job's status stays or
\* moves forward along pending -> running -> {completed, failed, cancelled};
\* a step that counts a retry on a failed job adds a new pending row.
C2_StatusOnlyForward ==
  [][/\ Len(jobs') >= Len(jobs)
     /\ \A j \in JobIds :
          /\ StatusStepOk(jobs[j].status, jobs'[j].status)
          /\ jobs'[j].retry_count # jobs[j].retry_count =>
               /\ Len(jobs') = Len(jobs) + 1
               /\ jobs'[Len(jobs')].status = "pending"]_vars

\* a failed job that was retried is still failed
C2_Witness ==
  \E r \in RetryJobs : /\ jobs[jobMeta[r].ref].status = "failed"
                       /\ jobs[jobMeta[r].ref].retry_count > 0

\* the step in which the retry pass retries job j
RetryStepOf(j) ==
  /\ jobs[j].status = "failed"
  /\ Len(jobs') = Len(jobs) + 1
  /\ jobMeta'[Len(jobs')].origin = "retry"
  /\ jobMeta'[Len(jobs')].ref = j

\* C3 as stated: the retry of a failed job J is a new job with retry_count
\* J.retry_count + 1 and scheduled_at = now + delay, and J's row is left as
\* it was.
C3_Original ==
  [][\A j \in JobIds :
       RetryStepOf(j) =>
         /\ jobs'[Len(jobs')].retry_count = jobs[j].retry_count + 1
         /\ jobs'[Len(jobs')].scheduled_at =
              clock + BackoffBaseMinutes * Pow2(jobs[j].retry_count)
         /\ jobs'[j] = jobs[j]]_vars

\* C3 amended: the retry of a failed job J is a new pending job with
\* retry_count 0 and scheduled_at = now + 5 * 2^r, r being the retry_count
\* the pass read for J; J's retry_count becomes r + 1 and no other field of
\* J changes.
C3_Amended ==
  [][\A i \in Invocations : \A j \in JobIds :
       (RetryStepOf(j) /\ pc[i] = "retry_loop" /\ failedSnap'[i] # failedSnap[i]) =>
         LET r == Head(failedSnap[i]).retry_count IN
           /\ jobs'[Len(jobs')].retry_count = 0
           /\ jobs'[Len(jobs')].status = "pending"
           /\ jobs'[Len(jobs')].scheduled_at = clock + BackoffBaseMinutes * Pow2(r)
           /\ jobs'[j] = [jobs[j] EXCEPT !.retry_count = r + 1]
           /\ jobs'[j].status = "failed"]_vars

\* a job retried for the third time, at a time after 0
C3_Witness ==
  \E r \in RetryJobs : /\ jobs[jobMeta[r].ref].retry_count = 3
                       /\ jobMeta[r].created_at > 0
                       /\ jobs[r].scheduled_at = jobMeta[r].created_at + 20

\* the position of retry job r among the retries of its logical job
AttemptNo(r) == Cardinality({q \in RetryJobs : Root(q) = Root(r) /\ q <= r})

\* C4: the k-th retry job of a logical job is scheduled 5 * 2^(k-1) minutes
\* after the failure it retries (5, 10, 20), and there is no fourth.
C4_Original ==
  \A r \in RetryJobs :
    /\ AttemptNo(r) <= 3
    /\ jobs[r].scheduled_at =
         jobs[jobMeta[r].ref].completed_at
           + BackoffBaseMinutes * Pow2(AttemptNo(r) - 1)

\* C5: the retry jobs descending from one original job never number more
\* than its max_retries.
C5_Original ==
  \A j \in JobIds \ RetryJobs :
    Cardinality({r \in RetryJobs : Root(r) = j}) <= jobs[j].max_retries

\* C6: once a retry pass is over, every failed job that was out of retries
\* when the pass started has a sync_error notification.
C6_Original ==
  \A i \in Invocations :
    pc[i] = "idle" =>
      \A j \in seenExhausted[i] :
        \E n \in 1..Len(notifications) : notifications[n].type = "sync_error"

RetryEligible == {"transient", "rate_limited"}

\* C7: every retry job retries a job that failed for a retry-eligible reason
\* and had retries left.
C7_Original ==
  \A r \in RetryJobs :
    /\ jobs[jobMeta[r].ref].error_message \in RetryEligible
    /\ jobs[jobMeta[r].ref].retry_count <= jobs[jobMeta[r].ref].max_retries

\* C8: the rate-limit check of a platform returns false exactly while the
\* rows logged for it within the trailing minute have reached its ceiling.
C8_Original ==
  \A p \in RatePlatforms :
    CheckRateLimit(p, FALSE) = (RowsSince(p, clock - 1) < RateLimitRequests(p))

\* C9: a product whose rate-limit count query failed is admitted for that
\* platform (the limiter fails open).
C9_Original ==
  \A k \in 1..Len(batch) : \A p \in RatePlatforms :
    batch[k].queryFailed[p] => batch[k].admit[p]

\* calls placed to platform p and not yet logged
InFlight(p) ==
  Cardinality({k \in 1..Len(batch) : batch[k].pc = <<"log", p>>})

\* C10: the calls placed to a platform within the trailing minute never
\* exceed the platform's ceiling.
C10_Original ==
  \A p \in RatePlatforms :
    RowsSince(p, clock - 1) + InFlight(p) <= RateLimitRequests(p)

\* C12: every job created for a schedule by a scheduler tick belongs to a
\* schedule that is active; a disabled schedule has no job, whatever its
\* next_run.
C12_DisabledNeverDispatched ==
  \A j \in JobIds :
    jobMeta[j].origin = "schedule" => schedules[jobMeta[j].ref].is_active

\* a tick has finished its schedule loop and dispatched the active schedule
\* while a disabled schedule whose next_run has passed got nothing
C12_Witness ==
  /\ pc["cron"] = "retry_fetch"
  /\ \E s, t \in ScheduleIds :
       /\ ~schedules[s].is_active
       /\ schedules[s].next_run <= clock
       /\ CreatedInTick("cron", s) = {}
       /\ schedules[t].is_active
       /\ CreatedInTick("cron", t) # {}

\* the entity a notification is about
NotifEntity(n) == IF n.type = "low_stock" THEN n.product_id ELSE n.order_id

\* C11: there are never two unread notifications of the same kind for the
\* same entity (emitting an alert again while the first one is unread adds
\* no row).
C11_Original ==
  \A a, b \in 1..Len(notifications) :
    (a # b /\ ~notifications[a].read /\ ~notifications[b].read) =>
      \/ notifications[a].type # notifications[b].type
      \/ NotifEntity(notifications[a]) # NotifEntity(notifications[b])

\* the kinds of the notifications a step adds
EmittedKinds ==
  [n \in 1..(Len(notifications') - Len(notifications)) |->
     notifications'[Len(notifications) + n].type]

\* C15: the step that ends the sync of a product emits one breach alert
\* exactly when the stock read by this request is below the threshold and
\* the stock read by the previous request was not, one restock alert
\* exactly when it is back at or above the threshold, and nothing otherwise.
C15_Original ==
  [][\A k \in 1..Len(batch) :
       (batch[k].pc[1] = "alert" /\ batch'[k].pc[1] = "done") =>
         LET id == batch[k].id
             prev == stockSeen[id][1]
             now == stockSeen[id][2]
             th == products[id].low_stock_threshold
         IN EmittedKinds =
              IF prev >= th /\ now < th THEN <<"low_stock">>
              ELSE IF prev < th /\ now >= th THEN <<"stock_restock">>
              ELSE <<>>]_vars

\* the orders of a list
OidsOf(list) == {list[k].oid : k \in 1..Len(list)}

\* the positions of a list whose order has another status locally
Differing(existing, list) ==
  {k \in 1..Len(list) : existing[list[k].oid].status # list[k].status}

\* the local and the fetched snapshot hold the same orders, each once, and
\* differ in the status of exactly one of them
DifferInOneStatus ==
  /\ mon.pc[1] = "store"
  /\ Cardinality(OidsOf(mon.current)) = Len(mon.current)
  /\ OidsOf(mon.current) = {o \in OrderIds : mon.existing[o].present}
  /\ Cardinality(Differing(mon.existing, mon.current)) = 1

\* C13 as stated: for a local and a remote snapshot that differ only in the
\* status of one order, the alerts of the pass are exactly one status change
\* carrying the old and the new status.
C13_Original ==
  DifferInOneStatus =>
    \A k \in Differing(mon.existing, mon.current) :
      mon.sent = <<OrderAlert("status_change", mon.current[k], "medium",
                              mon.existing[mon.current[k].oid].status,
                              mon.current[k].status)>>

\* C13 amended: for such a pair the alerts of the pass are exactly one
\* status change carrying the old and the new status, followed by one
\* shipping update when the new status is shipped, and nothing else.
C13_Amended ==
  DifferInOneStatus =>
    \A k \in Differing(mon.existing, mon.current) :
      mon.sent = <<OrderAlert("status_change", mon.current[k], "medium",
                              mon.existing[mon.current[k].oid].status,
                              mon.current[k].status)>>
                 \o (IF mon.current[k].status = "shipped"
                     THEN <<OrderAlert("shipping_update", mon.current[k], "low", "", "")>>
                     ELSE <<>>)

\* two orders in both snapshots, one of them now paid instead of pending
C13_Witness ==
  /\ DifferInOneStatus
  /\ Len(mon.current) = 2
  /\ \E k \in Differing(mon.existing, mon.current) :
       /\ mon.existing[mon.current[k].oid].status = "pending"
       /\ mon.current[k].status = "paid"
  /\ Len(mon.sent) = 1

\* C14: a request that fetched the same orders as the request before it
\* emits no alert.
C14_Original ==
  (mon.pc[1] = "store" /\ lastResponse.runs > 0
     /\ mon.current = lastResponse.orders) => mon.sent = <<>>

\* C16: a fetched order absent locally gets a new-order notification; for a
\* total at or above the high-value threshold the order is notified with the
\* top priority, below it the new-order notification has the normal one.
C16_Original ==
  mon.pc[1] = "store" =>
    \A k \in 1..Len(mon.sent) :
      mon.sent[k].type = "new_order" =>
        IF OrderTotal(mon.sent[k].order_id) >= HighValueOrder
        THEN \E m \in 1..Len(mon.sent) :
               /\ mon.sent[m].order_id = mon.sent[k].order_id
               /\ mon.sent[m].severity \in {"critical", "urgent"}
        ELSE mon.sent[k].severity \in {"normal", "medium"}

\* the entry reported last about order o
LatestEntry(o) == CHOOSE k \in EntriesOf(o) : \A m \in EntriesOf(o) : m <= k

\* the local row of order o shows the status its platform reports last
Reflected(o) ==
  /\ EntriesOf(o) # {}
  /\ orders[o].present
  /\ orders[o].status =
       IF OrderPlatform(o) = "shopee"
       THEN MapShopeeStatus(remote[LatestEntry(o)].status)
       ELSE MapTikTokStatus(remote[LatestEntry(o)].status)

\* C17: every order a platform holds is eventually in the local store with
\* the status the platform reports, however late the polls came.
C17_Original ==
  \A o \in OrderIds : (EntriesOf(o) # {}) ~> Reflected(o)

\* the positions of the alerts sent about a status change of order o
StatusChangesOf(o) ==
  {k \in 1..Len(mon.sent) :
     mon.sent[k].type = "status_change" /\ mon.sent[k].order_id = o}

\* C18: a pass emits at most one status change per order, and it carries
\* the status fetched last for that order.
C18_Original ==
  mon.pc[1] = "store" =>
    \A o \in OrderIds :
      /\ Cardinality(StatusChangesOf(o)) <= 1
      /\ \A k \in StatusChangesOf(o) :
           \A m \in 1..Len(mon.current) :
             (mon.current[m].oid = o
                /\ \A n \in 1..Len(mon.current) : mon.current[n].oid = o => n <= m)
               => mon.sent[k].new_status = mon.current[m].status

\* C20: when a request of order-monitor has fetched, every platform call it
\* placed has a row in the rate window of its platform.
C20_Original ==
  mon.pc[1] = "store" =>
    \A p \in RatePlatforms : mon.calls[p] <= RowsSince(p, mon.checkFrom)

\* the limiter denied a call of the request that has returned
DeniedInSync == \E p \in RatePlatforms : RateLimitError(p) \in syncResult.errors

\* C19: a call is placed to a platform only for a product the limiter
\* admitted there, and a job whose inventory-sync request had a call denied
\* ends failed with reason rate_limited.
C19_Original ==
  /\ \A k \in 1..Len(batch) : \A p \in RatePlatforms :
       batch[k].pc \in {<<"call", p>>, <<"log", p>>} => batch[k].admit[p]
  /\ \A j \in JobIds :
       (jobMeta[j].origin = "schedule" /\ jobs[j].status \in TerminalStatuses
          /\ DeniedInSync) =>
         (jobs[j].status = "failed" /\ jobs[j].error_message = "rate_limited")


(* C24: a run_now request with job_type and platform appends exactly one   *)
(* job, pending, of priority high, tied to no schedule, and leaves every   *)
(* schedule as it was; a run_now request without job_type or platform      *)
(* appends no job and returns success = false.                             *)
IsRunNowStep ==
  /\ response'.action = "run_now"
  /\ \/ response' # response
     \/ /\ Len(jobs') = Len(jobs) + 1
        /\ jobMeta'[Len(jobs')].origin = "manual"

C24_RunNowOneStandaloneJob ==
  [][IsRunNowStep =>
       IF response'.job_type # "" /\ response'.platform # ""
       THEN /\ response'.success
            /\ Len(jobs') = Len(jobs) + 1
            /\ response'.job_id = Len(jobs')
            /\ SubSeq(jobs', 1, Len(jobs)) = jobs
            /\ jobs'[Len(jobs')].status = "pending"
            /\ jobs'[Len(jobs')].priority = "high"
            /\ jobs'[Len(jobs')].type = response'.job_type
            /\ jobs'[Len(jobs')].platform = response'.platform
            /\ jobMeta'[Len(jobs')].ref = 0
            /\ schedules' = schedules
       ELSE /\ ~response'.success
            /\ jobs' = jobs
            /\ schedules' = schedules]_vars

\* C24 witness: a run_now request has been answered with a job that is
\* pending and of priority high, while a schedule has already been
\* dispatched
C24_Witness ==
  /\ response.action = "run_now" /\ response.success
  /\ response.job_id \in 1..Len(jobs)
  /\ jobs[response.job_id].status = "pending"
  /\ jobs[response.job_id].priority = "high"
  /\ \E s \in ScheduleIds : schedules[s].last_run # NoTime

(* C25: no job becomes cancelled from a status other than pending; a job   *)
(* that is running leaves running only for completed or failed, and it     *)
(* does leave it.                                                          *)
C25_CancelOnlyFromPending ==
  /\ [][\A j \in 1..Len(jobs) :
          /\ (jobs'[j].status = "cancelled" /\ jobs[j].status # "cancelled")
               => jobs[j].status = "pending"
          /\ (jobs[j].status = "running" /\ jobs'[j].status # "running")
               => jobs'[j].status \in {"completed", "failed"}]_vars
  /\ \A j \in 1..MaxJobs :
       (j <= Len(jobs) /\ jobs[j].status = "running")
         ~> (j <= Len(jobs) /\ jobs[j].status \in {"completed", "failed"})

\* C25 witness: a cancel request was answered while a job was running, and
\* that job has gone on to completed or failed
C25_Witness ==
  /\ response.action = "cancel"
  /\ \E j \in response.running : jobs[j].status \in {"completed", "failed"}

(* C28: every pending job whose scheduled_at has passed leaves pending     *)
(* for running, the scheduler tick being invoked for ever.                 *)
C28_Original ==
  \A j \in 1..MaxJobs :
    (j <= Len(jobs) /\ jobs[j].status = "pending" /\ jobs[j].scheduled_at <= clock)
      ~> (j <= Len(jobs) /\ jobs[j].status # "pending")

(* C22: once the executor has returned for a job the tick handed to it,    *)
(* the job is completed or failed, and a failed one carries its error      *)
(* message and has a job_failed or job_error row in scheduler_logs: no job *)
(* created by a tick is left pending or running by an error.               *)
HandedBack(j) ==
  /\ jobMeta[j].origin = "schedule"
  /\ cur[jobMeta[j].by] # j

DispatchesOf(s, t) ==
  {j \in JobIds : /\ jobMeta[j].origin = "schedule"
                  /\ jobMeta[j].ref = s
                  /\ jobMeta[j].created_at = t}

C27_Original ==
  \A s \in ScheduleIds, t \in 0..MaxClock : Cardinality(DispatchesOf(s, t)) <= 1

(* C21: a call of the tenant on a platform is denied by the rate-limit     *)
(* check only if the tenant's own rows for that platform have reached the  *)
(* platform's ceiling: rows logged for other tenants never turn an         *)
(* admission into a denial.                                                *)
OwnRowsSince(p, since) ==
  SumOver(tenantRows[p], {t \in DOMAIN tenantRows[p] : t >= since})

C21_Original ==
  \A k \in 1..Len(batch) : \A p \in RatePlatforms :
    (RateLimitError(p) \in batch[k].errors /\ ~batch[k].queryFailed[p])
      => OwnRowsSince(p, NoTime) >= RateLimitRequests(p)

(* C23: while a job of platform shopee or tiktokshop is being executed,    *)
(* the inventory pushes placed for it go to that platform only.            *)
C23_Original ==
  \A i \in Invocations :
    (cur[i] # 0 /\ jobs[cur[i]].platform \in RatePlatforms) =>
      \A k \in 1..Len(batch) :
        batch[k].pc[1] \in {"call", "log"} => batch[k].pc[2] = jobs[cur[i]].platform

(* C30: a failing platform call makes the fetcher return no orders, the    *)
(* request of order-monitor still answers success, and the order_monitor   *)
(* job the executor ran it for ends completed and never gets a retry job.  *)
C30_FetchFailureStillCompleted ==
  /\ (lastResponse.runs > 0 /\ lastResponse.failed # {}) =>
       /\ lastResponse.success
       /\ \A k \in 1..Len(lastResponse.orders) :
            OrderPlatform(lastResponse.orders[k].oid) \notin lastResponse.failed
  /\ \A j \in JobIds :
       (jobs[j].type = "order_monitor" /\ HandedBack(j)) =>
         /\ jobs[j].status = "completed"
         /\ \A r \in RetryJobs : jobMeta[r].ref # j

\* C30 witness: the Shopee call of the job's request failed while Shopee held
\* an order in the window, the job is completed and the retry pass of the
\* tick is over
C30_Witness ==
  /\ pc["cron"] = "idle"
  /\ "shopee" \in lastResponse.failed
  /\ \E k \in 1..Len(remote) :
       OrderPlatform(remote[k].oid) = "shopee" /\ remote[k].created_at >= 0
  /\ \E j \in JobIds :
       /\ jobs[j].type = "order_monitor" /\ HandedBack(j)
       /\ jobs[j].status = "completed"

(* C26: an order that is pending is taken to delivered by a user who       *)
(* presses, for this order, the lifecycle buttons the Orders page offers.  *)
C26_Original ==
  \A o \in OrderIds :
    (orders[o].status = "pending") ~> (orders[o].status = "delivered")

(* C29: through process-order an order row changes only along the edges    *)
(* pending -> processing, processing -> shipped (with a tracking number),  *)
(* shipped -> delivered, and any status but delivered or completed ->      *)
(* cancelled; a delivered or cancelled order is not changed again.         *)
EdgeAllowed(old, new) ==
  \/ /\ old.status = "pending" /\ new.status = "processing"
     /\ new.tracking_number = old.tracking_number
  \/ /\ old.status = "processing" /\ new.status = "shipped"
     /\ new.tracking_number # ""
  \/ /\ old.status = "shipped" /\ new.status = "delivered"
     /\ new.tracking_number = old.tracking_number
  \/ /\ old.status \notin {"delivered", "completed", "cancelled"}
     /\ new.status = "cancelled"
     /\ new.tracking_number = old.tracking_number

C29_Original ==
  [][\A o \in OrderIds :
       orders'[o] # orders[o] => EdgeAllowed(orders[o], orders'[o])]_vars
====
